---- MODULE Spec2Model ----
(***************************************************************************)
(* The resilient MCP client of next-app/src/lib (CircuitBreaker and        *)
(* MCPClient): a circuit breaker around a retry loop around one JSON-RPC   *)
(* request over HTTP, with lazy protocol initialisation and a session      *)
(* token captured from response headers.                                   *)
(*                                                                         *)
(* A step of the model is one run-to-completion stretch of the event loop: *)
(* from one suspension point (fetch, response.text(), sleep, await         *)
(* initialize()) to the next.                                              *)
(*                                                                         *)
(* Time is counted in seconds (1 unit = 1000 ms of Date.now()).  The code  *)
(* reads the clock only to compare a difference with a constant, so the    *)
(* model keeps the differences: for the breaker the time since             *)
(* lastFailureTime, counted while the breaker is OPEN (the only state in   *)
(* which execute reads it), for a call the time since its fetch or its     *)
(* sleep began.  Each timer runs on its own: any order in which the timers *)
(* of different calls and of the breaker become due is a behaviour.        *)
(***************************************************************************)
EXTENDS Integers, Sequences, FiniteSets, TLC

VARIABLES
    state,              \* CircuitBreaker.state
    failures,           \* CircuitBreaker.failures
    sinceFailure,       \* Date.now() - CircuitBreaker.lastFailureTime
    sessionId,          \* MCPClient.sessionId
    initialized,        \* MCPClient.initialized
    calls,              \* the position of every call in progress
    handshaken,         \* history: an initialize request succeeded since construction / disconnect
    streak,             \* history: the calls that failed since the last one that succeeded
    returned,           \* what a public operation hands to its caller in this step
    sentNow,            \* the calls whose request in flight has the present reading of Date.now() as its id
    responseText,       \* a response body handed to the decoder of makeRequest
    decoded             \* what the decoder made of responseText

vars == <<state, failures, sinceFailure, sessionId, initialized, calls, handshaken, streak,
          returned, sentNow, responseText, decoded>>

----------------------------------------------------------------------------
(* Program constants *)

FailureThreshold == 5
RecoveryTimeout == 30
Timeout == 15
RetryAttempts == 3
RetryDelay == 1

(* Bounds of the model *)

MaxFailures == 6

NoToken == "null"
Tokens == {"S1", "S2"}
UserIds == {"u1", "u2"}
NoArg == "-"

\* the calls that can be in progress at once
Slots == DOMAIN calls

----------------------------------------------------------------------------
(* Public operations *)

BoolOps == {"pushFact", "updateFact", "deleteFact"}
ContextOps == {"getMemoryContext", "getMemoryContextAsResource"}
BreakerOps == BoolOps \cup ContextOps
Ops == BreakerOps \cup {"connect", "healthCheck"}

\* the JSON-RPC method the operation's own request carries
MethodOf(op) ==
    CASE op \in BoolOps -> "tools/call"
      [] op = "getMemoryContext" -> "tools/call"
      [] op = "getMemoryContextAsResource" -> "resources/read"
      [] OTHER -> "initialize"

----------------------------------------------------------------------------
(* Error messages.  A message is a sequence of tokens: its literal parts   *)
(* are one token each (none of them holds a digit), its numbers are spelt  *)
(* out digit by digit, so that String.includes('400') can be computed.     *)

DigitChar == <<"0", "1", "2", "3", "4", "5", "6", "7", "8", "9">>

\* a number as it is printed into a template string
RECURSIVE Digits(_)
Digits(n) == IF n < 10 THEN <<DigitChar[n + 1]>> ELSE Digits(n \div 10) \o <<DigitChar[(n % 10) + 1]>>

Includes(msg, pat) ==
    \E i \in 1..(Len(msg) - Len(pat) + 1) : SubSeq(msg, i, i + Len(pat) - 1) = pat

BreakerOpenError == <<"Circuit breaker is OPEN - MCP server unavailable">>
TimeoutError == <<"Request timeout after ">> \o Digits(Timeout * 1000) \o <<"ms">>
NetworkError == <<"fetch failed">>
HttpError(status) == <<"HTTP error! status: ">> \o Digits(status)
McpError(message) == <<"MCP error: ">> \o message
NoSseResultError == <<"No valid result found in SSE response">>
NoResultError == <<"No result found in response">>
JsonParseError == <<"Unexpected token in JSON">>
NoError == <<>>

\* a loop that gives up on a body that is not JSON
NonRetryableParse(msg) ==
    \/ Includes(msg, <<"4", "0", "0">>)
    \/ Includes(msg, <<"4", "0", "1">>)
    \/ Includes(msg, <<"4", "0", "3">>)
    \/ msg = JsonParseError

\* a loop that knows two of the three statuses
NonRetryableTwo(msg) ==
    \/ Includes(msg, <<"4", "0", "0">>)
    \/ Includes(msg, <<"4", "0", "1">>)

\* makeRequestWithRetry: "Don't retry on certain errors"
NonRetryable(msg) ==
    \/ Includes(msg, <<"4", "0", "0">>)
    \/ Includes(msg, <<"4", "0", "1">>)
    \/ Includes(msg, <<"4", "0", "3">>)

----------------------------------------------------------------------------
(* What the server and the network may answer.  A response is an HTTP      *)
(* status, an optional mcp-session-id header and a body; a body is a       *)
(* sequence of lines.                                                      *)

Statuses == {200, 400, 401, 403, 500}
Ok(status) == status >= 200 /\ status <= 299        \* Response.ok

\* an optional value: absent (undefined), or present
Absent == <<>>
Some(x) == <<x>>

ServerMessages == {<<"Internal error">>, <<"Invalid params">>}

\* the result of a tool call or of a resource read: no content, a text that
\* is not JSON (the server's error texts), or the JSON text of a context
ToolResults ==
    { [content |-> "none", isError |-> FALSE, userId |-> "", facts |-> "empty"],
      [content |-> "text", isError |-> TRUE, userId |-> "", facts |-> "empty"],
      [content |-> "json", isError |-> FALSE, userId |-> "", facts |-> "some"],
      [content |-> "json", isError |-> FALSE, userId |-> "u2", facts |-> "some"] }

\* the JSON texts a line can hold: not JSON at all, or a response envelope
InvalidJson == Absent
Envelope(result, error) == Some([result |-> result, error |-> error])
Envelopes ==
    { Envelope(Some(r), Absent) : r \in ToolResults } \cup
    { Envelope(Absent, Some(m)) : m \in ServerMessages } \cup
    { Envelope(Absent, Absent) }

EventLine == [t |-> "event", json |-> Absent]            \* "event: message"
DataLine(json) == [t |-> "data", json |-> json]          \* "data: " + json
JsonLine(json) == [t |-> "json", json |-> json]          \* json, no prefix
BlankLine == [t |-> "blank", json |-> Absent]

Bodies ==
    { <<JsonLine(j)>> : j \in Envelopes \cup {InvalidJson} } \cup
    { <<EventLine, DataLine(j), BlankLine>> : j \in Envelopes \cup {InvalidJson} } \cup
    { <<EventLine, BlankLine>> }

Returned(result) == [ok |-> TRUE, result |-> Some(result), err |-> NoError]
Thrown(err) == [ok |-> FALSE, result |-> Absent, err |-> err]

\* responseText.includes('event: message')
IsEventStream(body) == \E i \in 1..Len(body) : body[i].t = "event"

\* a scan that takes the first data line for the answer, whatever it carries
RECURSIVE ScanFirstData(_, _)
ScanFirstData(body, i) ==
    IF i > Len(body) THEN Thrown(NoSseResultError)
    ELSE IF body[i].t # "data" THEN ScanFirstData(body, i + 1)
    ELSE IF body[i].json = InvalidJson THEN Thrown(JsonParseError)
    ELSE IF body[i].json[1].error # Absent THEN Thrown(McpError(body[i].json[1].error[1]))
    ELSE IF body[i].json[1].result # Absent THEN Returned(body[i].json[1].result[1])
    ELSE Thrown(NoSseResultError)

\* for (const line of lines) { if (line.startsWith('data: ')) ... }
RECURSIVE ScanLines(_, _)
ScanLines(body, i) ==
    IF i > Len(body) THEN Thrown(NoSseResultError)
    ELSE IF body[i].t # "data" THEN ScanLines(body, i + 1)
    ELSE IF body[i].json = InvalidJson THEN Thrown(JsonParseError)
    ELSE IF body[i].json[1].error # Absent THEN Thrown(McpError(body[i].json[1].error[1]))
    ELSE IF body[i].json[1].result # Absent THEN Returned(body[i].json[1].result[1])
    ELSE ScanLines(body, i + 1)

\* JSON.parse(responseText) of a body that is not an event stream
ParsePlain(body) ==
    IF Len(body) # 1 \/ body[1].t # "json" \/ body[1].json = InvalidJson
    THEN Thrown(JsonParseError)
    ELSE IF body[1].json[1].error # Absent THEN Thrown(McpError(body[1].json[1].error[1]))
    ELSE IF body[1].json[1].result = Absent THEN Thrown(NoResultError)
    ELSE Returned(body[1].json[1].result[1])

\* makeRequest, from response.text() on
Decode(body) == IF IsEventStream(body) THEN ScanLines(body, 1) ELSE ParsePlain(body)

----------------------------------------------------------------------------
(* Calls in progress.  pc is the suspension point the call waits at:       *)
(*   initHdr, reqHdr    the fetch of the handshake / of the own request    *)
(*   initBody, reqBody  response.text() of the handshake / the own request *)
(*   initDone           "await this.initialize()" in makeRequest           *)
(*   sleep              "await this.sleep(...)" before the next attempt    *)
(* sid is the mcp-session-id header of the message on the wire: of the     *)
(* request while the fetch is awaited, of the response while its body is.  *)
(* adm is the state the breaker was in when it let the call through.       *)

IdleCall ==
    [pc |-> "idle", op |-> "none", arg |-> NoArg, attempt |-> 0, elapsed |-> 0,
     sid |-> Absent, adm |-> "none", lastError |-> NoError]

\* a call starts in the first slot that is free
Free(c) ==
    /\ calls[c].pc = "idle"
    /\ \A d \in Slots : d < c => calls[d].pc # "idle"

InProgress(c) == calls[c].pc # "idle"
AwaitsFetch(c) == calls[c].pc \in {"initHdr", "reqHdr"}

\* the method of the request the call has on the network
WireMethod(c) ==
    IF calls[c].pc \in {"initHdr", "initBody"} THEN "initialize" ELSE MethodOf(calls[c].op)

\* "Include session ID if we have one": the mcp-session-id header of a request
Attach(held) == IF held # NoToken THEN Some(held) ELSE Absent

\* a client that takes the first token it is given and keeps it
CaptureOnce(held, header) == IF held = NoToken /\ header # Absent THEN header[1] ELSE held

\* "Capture session ID from response": the token held after a response
Capture(held, header) == IF header # Absent THEN header[1] ELSE held

\* a request is in flight from its fetch until its response has been read
InFlight(c) == calls[c].pc \in {"initHdr", "reqHdr", "initBody", "reqBody"}

\* the fetch of a request: pc tells which request it is
Fetch(call, pc) ==
    [call EXCEPT !.pc = pc, !.sid = Attach(sessionId), !.elapsed = 0,
                 !.lastError = NoError]

\* makeRequest up to its fetch: the handshake first when the client is not initialized
MakeRequest(call) ==
    IF ~initialized /\ MethodOf(call.op) # "initialize"
    THEN Fetch(call, "initHdr")
    ELSE Fetch(call, "reqHdr")

Value(v) == [v |-> v, userId |-> "", facts |-> "empty"]
Context(userId, facts) == [v |-> "context", userId |-> userId, facts |-> facts]

\* an operation with no catch
FallbackRaises(op, arg) == Value("raised")

\* the value a public operation returns from its catch; connect has none
Fallback(op, arg) ==
    CASE op \in BoolOps -> Value("false")
      [] op \in ContextOps -> Context(arg, "empty")
      [] op = "healthCheck" -> Value("false")
      [] OTHER -> Value("raised")

\* the value a public operation returns from the result of its request
Outcome(op, arg, result) ==
    CASE op \in BoolOps -> Value("true")
      [] op \in ContextOps ->
            IF result.content = "json"
            THEN Context(IF result.userId # "" THEN result.userId ELSE arg, result.facts)
            ELSE Context(arg, "empty")
      [] op = "healthCheck" -> Value("true")
      [] OTHER -> Value("void")

\* nothing is being handed to a caller
Nothing ==
    [op |-> "none", arg |-> NoArg, res |-> Value("none"), err |-> NoError, attempts |-> 0,
     adm |-> "none", result |-> Absent]

\* no value is on its way to a caller: the event loop takes the next event
Running == returned = Nothing

\* call c ends: its promise settles with res
Ended(c, res, err) ==
    /\ calls' = [calls EXCEPT ![c] = IdleCall]
    /\ returned' = [op |-> calls[c].op, arg |-> calls[c].arg, res |-> res, err |-> err,
                    attempts |-> calls[c].attempt, adm |-> calls[c].adm, result |-> Absent]

\* the request of call c resolves with the result the server sent: the
\* operation returns what it makes of it
Resolved(c, result) ==
    /\ calls' = [calls EXCEPT ![c] = IdleCall]
    /\ returned' = [op |-> calls[c].op, arg |-> calls[c].arg,
                    res |-> Outcome(calls[c].op, calls[c].arg, result), err |-> NoError,
                    attempts |-> calls[c].attempt, adm |-> calls[c].adm,
                    result |-> Some(result)]

----------------------------------------------------------------------------
(* CircuitBreaker *)

\* execute: an OPEN breaker lets a call through once the recovery timeout is over
Recovered(elapsed) == elapsed > RecoveryTimeout

\* the differences the breaker tells apart: 0 .. RecoveryTimeout, and more
Longest == RecoveryTimeout + 1

\* a breaker that opens one failure early
TrippedEarly(n) == n >= FailureThreshold - 1

\* a breaker that opens one failure late
TrippedLate(n) == n > FailureThreshold

\* onFailure: "if (this.failures >= this.failureThreshold)"
Tripped(n) == n >= FailureThreshold

\* a breaker that closes and keeps its count
OnSuccessKeepsCount ==
    /\ failures' = failures
    /\ state' = "CLOSED"
    /\ UNCHANGED sinceFailure

\* a success that forgets the failures and leaves the state as it is
OnSuccessKeepsState ==
    /\ failures' = 0
    /\ UNCHANGED <<state, sinceFailure>>

OnSuccess ==
    /\ failures' = 0
    /\ state' = "CLOSED"
    /\ UNCHANGED sinceFailure

OnFailure ==
    /\ failures' = failures + 1
    /\ sinceFailure' = 0
    /\ state' = IF Tripped(failures + 1) THEN "OPEN" ELSE state

----------------------------------------------------------------------------
(* MCPClient *)

\* the decoder is at rest
NoText == <<>>
NotDecoded == [ok |-> FALSE, result |-> Absent, err |-> NoError]

InitWith(slots) ==
    /\ state = "CLOSED"
    /\ failures = 0
    /\ sinceFailure = Longest
    /\ sessionId = NoToken
    /\ initialized = FALSE
    /\ calls = [c \in slots |-> IdleCall]
    /\ handshaken = FALSE
    /\ streak = 0
    /\ returned = Nothing
    /\ sentNow = {}
    /\ responseText = NoText
    /\ decoded = NotDecoded

\* a breaker that takes the call it turns away for a failure, and starts
\* the recovery timeout again
RejectRestartsWindow(c, op, arg) ==
    /\ Running
    /\ Free(c)
    /\ state = "OPEN"
    /\ ~Recovered(sinceFailure)
    /\ returned' = [op |-> op, arg |-> arg, res |-> Fallback(op, arg),
                    err |-> BreakerOpenError, attempts |-> 0, adm |-> "none",
                    result |-> Absent]
    /\ sinceFailure' = 0
    /\ UNCHANGED <<state, failures, sessionId, initialized, calls, handshaken, streak>>
    /\ UNCHANGED <<sentNow, responseText, decoded>>

\* a public operation wrapped by makeRequestWithRetry is called while the
\* breaker rejects: circuitBreaker.execute throws, the operation's catch
\* returns the fallback
Reject(c, op, arg) ==
    /\ Running
    /\ Free(c)
    /\ state = "OPEN"
    /\ ~Recovered(sinceFailure)
    /\ returned' = [op |-> op, arg |-> arg, res |-> Fallback(op, arg),
                    err |-> BreakerOpenError, attempts |-> 0, adm |-> "none",
                    result |-> Absent]
    /\ UNCHANGED <<state, failures, sinceFailure, sessionId, initialized, calls,
                   handshaken, streak>>
    /\ UNCHANGED <<sentNow, responseText, decoded>>

\* a public operation wrapped by makeRequestWithRetry is called and let
\* through: attempt 1 runs up to its fetch
Admit(c, op, arg) ==
    /\ Running
    /\ Free(c)
    /\ state = "OPEN" => Recovered(sinceFailure)
    /\ failures < MaxFailures
    /\ state' = IF state = "OPEN" THEN "HALF_OPEN" ELSE state
    /\ calls' = [calls EXCEPT ![c] =
                    MakeRequest([IdleCall EXCEPT !.op = op, !.arg = arg, !.attempt = 1,
                                              !.adm = state])]
    /\ UNCHANGED <<failures, sinceFailure, sessionId, initialized, handshaken, streak,
                   returned>>
    /\ sentNow' = sentNow \cup {c}
    /\ UNCHANGED <<responseText, decoded>>

\* connect(): initialize() returns at once on an initialized client
Connect(c) ==
    /\ Running
    /\ Free(c)
    /\ IF initialized
       THEN /\ returned' = [Nothing EXCEPT !.op = "connect", !.res = Value("void")]
            /\ UNCHANGED <<calls, sentNow>>
       ELSE /\ calls' = [calls EXCEPT ![c] = Fetch([IdleCall EXCEPT !.op = "connect"], "initHdr")]
            /\ sentNow' = sentNow \cup {c}
            /\ UNCHANGED returned
    /\ UNCHANGED <<state, failures, sinceFailure, sessionId, initialized, handshaken, streak>>
    /\ UNCHANGED <<responseText, decoded>>

\* a health check that goes through initialize(), and leaves the client
\* initialized when the handshake succeeds
HealthCheckConnects(c) ==
    /\ Running
    /\ Free(c)
    /\ calls' = [calls EXCEPT ![c] = Fetch([IdleCall EXCEPT !.op = "healthCheck"], "initHdr")]
    /\ UNCHANGED <<state, failures, sinceFailure, sessionId, initialized, handshaken, streak,
                   returned>>
    /\ sentNow' = sentNow \cup {c}
    /\ UNCHANGED <<responseText, decoded>>

\* healthCheck(): makeRequest('initialize') with no breaker and no retry
HealthCheck(c) ==
    /\ Running
    /\ Free(c)
    /\ calls' = [calls EXCEPT ![c] = MakeRequest([IdleCall EXCEPT !.op = "healthCheck"])]
    /\ UNCHANGED <<state, failures, sinceFailure, sessionId, initialized, handshaken, streak,
                   returned>>
    /\ sentNow' = sentNow \cup {c}
    /\ UNCHANGED <<responseText, decoded>>

\* a sleep of the same length before every attempt
BackoffFlat(attempt) == RetryDelay

\* "await this.sleep(this.retryDelay * attempt)"
Backoff(attempt) == RetryDelay * attempt

\* a loop that goes round once more
ExhaustedLate(attempt) == attempt > RetryAttempts

\* "if (attempt === this.retryAttempts)"
Exhausted(attempt) == attempt = RetryAttempts

\* a breaker wrapped around each attempt: every failed attempt is counted
RetryCounted(c, err) ==
    /\ calls' = [calls EXCEPT ![c] =
            [@ EXCEPT !.pc = "sleep", !.attempt = @ + 1, !.sid = Absent, !.elapsed = 0,
                      !.lastError = err]]
    /\ failures' = failures + 1
    /\ UNCHANGED <<state, sinceFailure, streak, returned>>

\* the catch of the retry loop goes round: the next attempt begins with its sleep
Retry(c, err) ==
    /\ calls' = [calls EXCEPT ![c] =
            [@ EXCEPT !.pc = "sleep", !.attempt = @ + 1, !.sid = Absent, !.elapsed = 0,
                      !.lastError = err]]
    /\ UNCHANGED <<state, failures, sinceFailure, streak, returned>>

\* a catch that ends the call on a non-retryable error without telling the breaker
FailClientUncounted(c, err) ==
    IF calls[c].op \notin BreakerOps \/ NonRetryable(err)
    THEN /\ Ended(c, Fallback(calls[c].op, calls[c].arg), err)
         /\ UNCHANGED <<state, failures, sinceFailure, streak>>
    ELSE IF Exhausted(calls[c].attempt)
    THEN /\ OnFailure
         /\ Ended(c, Fallback(calls[c].op, calls[c].arg), err)
         /\ streak' = streak + 1
    ELSE Retry(c, err)

\* an attempt of call c has thrown err: healthCheck and connect end; inside
\* makeRequestWithRetry the catch ends the call, and the breaker records the
\* failure, or it goes round
Fail(c, err) ==
    IF calls[c].op \notin BreakerOps
    THEN /\ Ended(c, Fallback(calls[c].op, calls[c].arg), err)
         /\ UNCHANGED <<state, failures, sinceFailure, streak>>
    ELSE IF NonRetryable(err) \/ Exhausted(calls[c].attempt)
    THEN /\ OnFailure
         /\ Ended(c, Fallback(calls[c].op, calls[c].arg), err)
         /\ streak' = streak + 1
    ELSE Retry(c, err)

\* fetch rejects: the connection failed
NetworkFailure(c) ==
    /\ Running
    /\ AwaitsFetch(c)
    /\ Fail(c, NetworkError)
    /\ UNCHANGED <<sessionId, initialized, handshaken>>
    /\ sentNow' = sentNow \ {c}
    /\ UNCHANGED <<responseText, decoded>>

\* fetchWithTimeout: the abort timer fires before the response has come
RequestTimeout(c) ==
    /\ Running
    /\ AwaitsFetch(c)
    /\ calls[c].elapsed >= Timeout
    /\ Fail(c, TimeoutError)
    /\ UNCHANGED <<sessionId, initialized, handshaken>>
    /\ sentNow' = sentNow \ {c}
    /\ UNCHANGED <<responseText, decoded>>

\* fetch resolves with a status that is not ok
HttpFailure(c, status) ==
    /\ Running
    /\ AwaitsFetch(c)
    /\ ~Ok(status)
    /\ Fail(c, HttpError(status))
    /\ UNCHANGED <<sessionId, initialized, handshaken>>
    /\ sentNow' = sentNow \ {c}
    /\ UNCHANGED <<responseText, decoded>>

\* fetch resolves ok: the session header is captured, response.text() awaited
Headers(c, status, header) ==
    /\ Running
    /\ AwaitsFetch(c)
    /\ Ok(status)
    /\ sessionId' = Capture(sessionId, header)
    /\ calls' = [calls EXCEPT ![c].pc = IF @ = "initHdr" THEN "initBody" ELSE "reqBody",
                              ![c].sid = header,
                              ![c].elapsed = 0]
    /\ UNCHANGED <<state, failures, sinceFailure, initialized, handshaken, streak, returned>>
    /\ UNCHANGED <<sentNow, responseText, decoded>>

\* the body of the handshake has come
InitBody(c, body) ==
    /\ Running
    /\ calls[c].pc = "initBody"
    /\ IF Decode(body).ok
       THEN /\ initialized' = TRUE
            /\ handshaken' = TRUE
            /\ IF calls[c].op = "connect"
               THEN Ended(c, Value("void"), NoError)
               ELSE /\ calls' = [calls EXCEPT ![c].pc = "initDone", ![c].sid = Absent]
                    /\ UNCHANGED returned
            /\ UNCHANGED <<state, failures, sinceFailure, streak>>
       ELSE /\ Fail(c, Decode(body).err)
            /\ UNCHANGED <<initialized, handshaken>>
    /\ UNCHANGED sessionId
    /\ sentNow' = sentNow \ {c}
    /\ UNCHANGED <<responseText, decoded>>

\* makeRequest goes on after "await this.initialize()"
Resume(c) ==
    /\ Running
    /\ calls[c].pc = "initDone"
    /\ calls' = [calls EXCEPT ![c] = Fetch(@, "reqHdr")]
    /\ UNCHANGED <<state, failures, sinceFailure, sessionId, initialized, handshaken, streak,
                   returned>>
    /\ sentNow' = sentNow \cup {c}
    /\ UNCHANGED <<responseText, decoded>>

\* the body of the operation's own request has come
ReqBody(c, body) ==
    /\ Running
    /\ calls[c].pc = "reqBody"
    /\ IF Decode(body).ok
       THEN /\ Resolved(c, Decode(body).result[1])
            /\ IF calls[c].op \in BreakerOps
               THEN OnSuccess /\ streak' = 0
               ELSE UNCHANGED <<state, failures, sinceFailure, streak>>
            /\ handshaken' = (handshaken \/ calls[c].op = "healthCheck")
       ELSE /\ Fail(c, Decode(body).err)
            /\ UNCHANGED handshaken
    /\ UNCHANGED <<sessionId, initialized>>
    /\ sentNow' = sentNow \ {c}
    /\ UNCHANGED <<responseText, decoded>>

\* time passes until the sleep of call c is over
SleepOver(c) ==
    /\ Running
    /\ calls[c].pc = "sleep"
    /\ calls[c].elapsed < Backoff(calls[c].attempt)
    /\ calls' = [calls EXCEPT ![c].elapsed = Backoff(calls[c].attempt)]
    /\ UNCHANGED <<state, failures, sinceFailure, sessionId, initialized, handshaken, streak,
                   returned>>
    /\ sentNow' = {}
    /\ UNCHANGED <<responseText, decoded>>

\* a breaker asked again before every attempt
WakeChecked(c) ==
    /\ Running
    /\ calls[c].pc = "sleep"
    /\ calls[c].elapsed >= Backoff(calls[c].attempt)
    /\ IF state = "OPEN" /\ ~Recovered(sinceFailure)
       THEN /\ Ended(c, Fallback(calls[c].op, calls[c].arg), BreakerOpenError)
            /\ UNCHANGED sentNow
       ELSE /\ calls' = [calls EXCEPT ![c] = MakeRequest(@)]
            /\ sentNow' = sentNow \cup {c}
            /\ UNCHANGED returned
    /\ UNCHANGED <<state, failures, sinceFailure, sessionId, initialized, handshaken, streak>>
    /\ UNCHANGED <<responseText, decoded>>

\* sleep(retryDelay * attempt) is over: the next attempt runs up to its fetch
Wake(c) ==
    /\ Running
    /\ calls[c].pc = "sleep"
    /\ calls[c].elapsed >= Backoff(calls[c].attempt)
    /\ calls' = [calls EXCEPT ![c] = MakeRequest(@)]
    /\ UNCHANGED <<state, failures, sinceFailure, sessionId, initialized, handshaken, streak,
                   returned>>
    /\ sentNow' = sentNow \cup {c}
    /\ UNCHANGED <<responseText, decoded>>

\* time passes until the abort timer of the fetch of call c is due
AbortDue(c) ==
    /\ Running
    /\ AwaitsFetch(c)
    /\ calls[c].elapsed < Timeout
    /\ calls' = [calls EXCEPT ![c].elapsed = Timeout]
    /\ UNCHANGED <<state, failures, sinceFailure, sessionId, initialized, handshaken, streak,
                   returned>>
    /\ sentNow' = {}
    /\ UNCHANGED <<responseText, decoded>>

\* a disconnect that starts the breaker afresh as well
DisconnectResetsBreaker ==
    /\ Running
    /\ sessionId' = NoToken
    /\ initialized' = FALSE
    /\ handshaken' = FALSE
    /\ state' = "CLOSED"
    /\ failures' = 0
    /\ UNCHANGED <<sinceFailure, calls, streak, returned>>
    /\ UNCHANGED <<sentNow, responseText, decoded>>

Disconnect ==
    /\ Running
    /\ sessionId' = NoToken
    /\ initialized' = FALSE
    /\ handshaken' = FALSE
    /\ UNCHANGED <<state, failures, sinceFailure, calls, streak, returned>>
    /\ UNCHANGED <<sentNow, responseText, decoded>>

\* time passes on an OPEN breaker: up to the last instant it rejects, then
\* to the first instant it admits
Elapse ==
    /\ Running
    /\ state = "OPEN"
    /\ sinceFailure < Longest
    /\ sinceFailure' = IF sinceFailure < RecoveryTimeout THEN RecoveryTimeout ELSE Longest
    /\ UNCHANGED <<state, failures, sessionId, initialized, calls, handshaken, streak,
                   returned>>
    /\ sentNow' = {}
    /\ UNCHANGED <<responseText, decoded>>

\* the clock moves on to its next reading
Tick ==
    /\ Running
    /\ sentNow # {}
    /\ sentNow' = {}
    /\ UNCHANGED <<state, failures, sinceFailure, sessionId, initialized, calls, handshaken,
                   streak, returned, responseText, decoded>>

\* the caller has the value
Return ==
    /\ returned # Nothing
    /\ returned' = Nothing
    /\ UNCHANGED <<state, failures, sinceFailure, sessionId, initialized, calls, handshaken,
                   streak>>
    /\ UNCHANGED <<sentNow, responseText, decoded>>

----------------------------------------------------------------------------
(* One call at a time, any public operation *)

\* response.headers.get('mcp-session-id'): a token, or no such header
SessionHeaders(tokens) == { Some(t) : t \in tokens } \cup {Absent}

ArgsOf(op) == IF op \in ContextOps THEN UserIds ELSE {NoArg}

Init == InitWith({1})

Step ==
    \/ \E c \in Slots, op \in BreakerOps : \E arg \in ArgsOf(op) : Reject(c, op, arg)
    \/ \E c \in Slots, op \in BreakerOps : \E arg \in ArgsOf(op) : Admit(c, op, arg)
    \/ \E c \in Slots : Connect(c)
    \/ \E c \in Slots : HealthCheck(c)
    \/ \E c \in Slots : NetworkFailure(c)
    \/ \E c \in Slots : AbortDue(c)
    \/ \E c \in Slots : RequestTimeout(c)
    \/ \E c \in Slots, status \in Statuses : HttpFailure(c, status)
    \/ \E c \in Slots, status \in Statuses, header \in SessionHeaders(Tokens) :
          Headers(c, status, header)
    \/ \E c \in Slots, body \in Bodies : InitBody(c, body)
    \/ \E c \in Slots : Resume(c)
    \/ \E c \in Slots, body \in Bodies : ReqBody(c, body)
    \/ \E c \in Slots : SleepOver(c)
    \/ \E c \in Slots : Wake(c)
    \/ Disconnect
    \/ Elapse
    \/ Tick

Next ==
    \/ Step
    \/ Return

Spec == Init /\ [][Next]_vars

\* what the event loop guarantees: a timer that is due fires, a promise that
\* is settled resumes its continuation, time goes on.  Nothing makes the
\* server send a response or finish a body.
Fairness ==
    /\ WF_vars(Return)
    /\ WF_vars(\E c \in Slots : Resume(c))
    /\ WF_vars(\E c \in Slots : AbortDue(c))
    /\ WF_vars(\E c \in Slots : RequestTimeout(c))
    /\ WF_vars(\E c \in Slots : SleepOver(c))
    /\ WF_vars(\E c \in Slots : Wake(c))

SpecLive == Init /\ [][Next]_vars /\ Fairness

----------------------------------------------------------------------------
(* Two calls at a time *)

ConcOps == {"pushFact"}
ConcTokens == {"S1"}
ConcStatuses == {200, 403, 500}
ConcBodies ==
    { <<JsonLine(Envelope(Some(r), Absent))>> : r \in {x \in ToolResults : x.content = "none"} }
        \cup { <<EventLine, BlankLine>> }

InitConc == InitWith({1, 2})

StepConc ==
    \/ \E c \in Slots, op \in ConcOps : \E arg \in ArgsOf(op) : Reject(c, op, arg)
    \/ \E c \in Slots, op \in ConcOps : \E arg \in ArgsOf(op) : Admit(c, op, arg)
    \/ \E c \in Slots : NetworkFailure(c)
    \/ \E c \in Slots : AbortDue(c)
    \/ \E c \in Slots : RequestTimeout(c)
    \/ \E c \in Slots, status \in ConcStatuses : HttpFailure(c, status)
    \/ \E c \in Slots, status \in ConcStatuses, header \in SessionHeaders(ConcTokens) :
          Headers(c, status, header)
    \/ \E c \in Slots, body \in ConcBodies : InitBody(c, body)
    \/ \E c \in Slots : Resume(c)
    \/ \E c \in Slots, body \in ConcBodies : ReqBody(c, body)
    \/ \E c \in Slots : SleepOver(c)
    \/ \E c \in Slots : Wake(c)
    \/ Disconnect
    \/ Elapse
    \/ Tick

NextConc ==
    \/ StepConc
    \/ Return

SpecConc == InitConc /\ [][NextConc]_vars

----------------------------------------------------------------------------
(* The decoder of makeRequest on its own: any body of up to MaxLines lines *)

MaxLines == 3

AnyResult == CHOOSE r \in ToolResults : r.content = "none"
OtherResult == CHOOSE r \in ToolResults : r.content = "text"
AnyMessage == CHOOSE m \in ServerMessages : TRUE

DecodeJsons ==
    { InvalidJson,
      Envelope(Some(AnyResult), Absent),
      Envelope(Some(OtherResult), Absent),
      Envelope(Absent, Some(AnyMessage)),
      Envelope(Some(AnyResult), Some(AnyMessage)),
      Envelope(Absent, Absent) }

DecodeLines ==
    {EventLine, BlankLine, JsonLine(Envelope(Some(AnyResult), Absent))}
        \cup { DataLine(j) : j \in DecodeJsons }

DecodeBodies == UNION { [1..n -> DecodeLines] : n \in 1..MaxLines }

\* "const responseText = await response.text()"
Receive(body) ==
    /\ responseText = NoText
    /\ responseText' = body
    /\ UNCHANGED <<state, failures, sinceFailure, sessionId, initialized, calls, handshaken,
                   streak, returned, sentNow, decoded>>

\* the rest of makeRequest
DecodeText ==
    /\ responseText # NoText
    /\ decoded = NotDecoded
    /\ decoded' = Decode(responseText)
    /\ UNCHANGED <<state, failures, sinceFailure, sessionId, initialized, calls, handshaken,
                   streak, returned, sentNow, responseText>>

\* the decoder is ready for the next body
Discard ==
    /\ decoded # NotDecoded
    /\ responseText' = NoText
    /\ decoded' = NotDecoded
    /\ UNCHANGED <<state, failures, sinceFailure, sessionId, initialized, calls, handshaken,
                   streak, returned, sentNow>>

InitDecode == InitWith({1})

NextDecode ==
    \/ \E body \in DecodeBodies : Receive(body)
    \/ DecodeText
    \/ Discard

SpecDecode == InitDecode /\ [][NextDecode]_vars

----------------------------------------------------------------------------
(* Properties.  A step is told from outside by what it does to calls and   *)
(* to returned.                                                            *)

\* a call is let through in slot c
Issued(c) == calls[c].pc = "idle" /\ calls'[c].pc # "idle"

\* a request of call c goes to the network
Sent(c) == calls'[c].pc \in {"initHdr", "reqHdr"} /\ calls[c].pc \notin {"initHdr", "reqHdr"}

\* the headers of an ok response to call c come in
Responded(c) == calls[c].pc \in {"initHdr", "reqHdr"} /\ calls'[c].pc \in {"initBody", "reqBody"}

\* a call of a breaker-wrapped operation hands its value to the caller
Settles == returned = Nothing /\ returned'.op \in BreakerOps

\* C1: once five calls have failed one after another with no success in
\* between, and no more than the recovery timeout has passed since the last
\* failure, a call of a breaker-wrapped operation is not let through: it
\* returns at once with the breaker-open error, having made no attempt, and
\* puts no request on the network.
C1_SixthCallRejected ==
    [][ (streak >= FailureThreshold /\ sinceFailure <= RecoveryTimeout) =>
            /\ \A c \in Slots : Issued(c) => calls'[c].op \notin BreakerOps
            /\ Settles => /\ returned'.err = BreakerOpenError
                          /\ returned'.attempts = 0
                          /\ calls' = calls ]_vars

C1_Witness ==
    /\ returned.err = BreakerOpenError
    /\ streak >= FailureThreshold
    /\ sinceFailure <= RecoveryTimeout

\* the calls in progress that the breaker let through when it was not CLOSED
AdmittedSinceOpen == { c \in Slots : InProgress(c) /\ calls[c].adm \in {"OPEN", "HALF_OPEN"} }

\* C2: while the breaker is HALF_OPEN at most one call that it let through
\* since it opened is in progress: the probe, and no second call beside it.
C2_OneProbeInFlight == state = "HALF_OPEN" => Cardinality(AdmittedSinceOpen) <= 1

\* C3: the step in which the probe (the call let through by an OPEN breaker)
\* succeeds leaves the breaker CLOSED with failure counter 0, and a CLOSED
\* breaker turns no call away.
C3_ProbeSuccessCloses ==
    [][ /\ (Settles /\ returned'.adm = "OPEN" /\ returned'.err = NoError) =>
                (state' = "CLOSED" /\ failures' = 0)
        /\ (Settles /\ state = "CLOSED") => returned'.err # BreakerOpenError ]_vars

C3_Witness ==
    /\ returned.adm = "OPEN"
    /\ returned.err = NoError
    /\ state = "CLOSED"
    /\ failures = 0

CoreOps == {"pushFact", "getMemoryContext", "updateFact", "deleteFact"}

\* C4: pushFact, getMemoryContext, updateFact and deleteFact never raise:
\* what they hand to the caller is a value, and after any error (breaker
\* open, retries exhausted, non-retryable error) it is false, or the caller's
\* userId with no facts.
C4_CoreOpsNeverRaise ==
    returned.op \in CoreOps =>
        /\ returned.res.v # "raised"
        /\ returned.err # NoError =>
              IF returned.op = "getMemoryContext"
              THEN returned.res = [v |-> "context", userId |-> returned.arg, facts |-> "empty"]
              ELSE returned.res = [v |-> "false", userId |-> "", facts |-> "empty"]

C4_Witness ==
    /\ returned.op = "getMemoryContext"
    /\ returned.arg = "u1"
    /\ returned.attempts = RetryAttempts
    /\ returned.err = NetworkError
    /\ returned.res.facts = "empty"

ClientErrors == {HttpError(400), HttpError(401), HttpError(403)}

\* C5: no call goes on to another attempt after an attempt has failed with
\* HTTP 400, 401 or 403: no call sleeps, or attempts again, with such an
\* error behind it; the error ends the call in the attempt it happened in.
C5_ClientErrorEndsCall ==
    \A c \in Slots : calls[c].lastError \notin ClientErrors

C5_Witness ==
    /\ returned.op \in BreakerOps
    /\ returned.err = HttpError(403)
    /\ returned.attempts = 1

\* C6: a call never makes more than RetryAttempts attempts, and a call that
\* fails with an error that is neither the breaker's nor a client error has
\* made exactly RetryAttempts of them.
C6_ExactlyRAttempts ==
    /\ \A c \in Slots : calls[c].attempt <= RetryAttempts
    /\ (/\ returned.op \in BreakerOps
        /\ returned.err \notin {NoError, BreakerOpenError} \cup ClientErrors)
            => returned.attempts = RetryAttempts

C6_Witness ==
    /\ returned.op = "updateFact"
    /\ returned.err = TimeoutError
    /\ returned.attempts = RetryAttempts

C8_OneOutcomePerCall ==
    [][ IF Settles /\ returned'.attempts >= 1
        THEN IF returned'.err # NoError THEN failures' = failures + 1 ELSE failures' = 0
        ELSE failures' = failures ]_vars

C8_Witness ==
    /\ returned.op \in BreakerOps
    /\ returned.attempts = RetryAttempts
    /\ returned.err # NoError
    /\ failures = 1

C10_HandshakeBeforeRequest ==
    [][ \A c \in Slots :
            (Sent(c) /\ calls'[c].pc = "reqHdr"
                     /\ MethodOf(calls'[c].op) \in {"tools/call", "resources/read"})
                => handshaken ]_vars

\* the data lines of the body being decoded
DataLines == { i \in 1..Len(responseText) : responseText[i].t = "data" }

\* those that are not JSON
BadLines == { i \in DataLines : responseText[i].json = InvalidJson }

\* those that carry a result or an error
Carriers ==
    { i \in DataLines \ BadLines :
        responseText[i].json[1].result # Absent \/ responseText[i].json[1].error # Absent }

FirstCarrier == CHOOSE i \in Carriers : \A k \in Carriers : i <= k

\* C11: a body with an event line, whose data lines up to the first that
\* carries a result or an error are JSON, decodes to what that line carries:
\* its error raised as a protocol error, else its result returned; the data
\* lines before it, which carry neither, are skipped.  With no data line that
\* carries a result or an error (and so with no data line at all) decoding
\* fails with 'No valid result found in SSE response'.
C11_FirstCarrierDecoded ==
    (/\ decoded # NotDecoded
     /\ \E i \in 1..Len(responseText) : responseText[i].t = "event"
     /\ \A k \in BadLines : Carriers # {} /\ FirstCarrier < k)
        => IF Carriers = {}
           THEN decoded = [ok |-> FALSE, result |-> Absent, err |-> NoSseResultError]
           ELSE IF responseText[FirstCarrier].json[1].error # Absent
           THEN decoded = [ok |-> FALSE, result |-> Absent,
                           err |-> McpError(responseText[FirstCarrier].json[1].error[1])]
           ELSE decoded = [ok |-> TRUE, result |-> responseText[FirstCarrier].json[1].result,
                           err |-> NoError]

C11_Witness ==
    /\ decoded.ok
    /\ Len(responseText) = 3
    /\ responseText[1].t = "event"
    /\ responseText[2] = DataLine(Envelope(Absent, Absent))
    /\ responseText[3].t = "data"

\* C12: an attempt that fails because the body is not JSON ends the call: no
\* call sleeps, or attempts again, with the parse error behind it.
C12_ParseErrorTerminal ==
    \A c \in Slots : calls[c].lastError # JsonParseError

\* C12, as amended: an attempt that fails because the body is not JSON is
\* retried like any other failure: before the last attempt the call goes to
\* sleep for the next one, and the parse error ends the call only when it is
\* the error of attempt RetryAttempts.
C12_ParseErrorRetried ==
    [][ /\ \A c \in Slots :
              (calls[c].lastError # JsonParseError /\ calls'[c].lastError = JsonParseError) =>
                    /\ calls[c].pc \in {"initBody", "reqBody"}
                    /\ calls[c].attempt < RetryAttempts
                    /\ calls'[c].pc = "sleep"
                    /\ calls'[c].attempt = calls[c].attempt + 1
        /\ (Settles /\ returned'.err = JsonParseError) =>
              returned'.attempts = RetryAttempts ]_vars

C12_Witness ==
    \E c \in Slots :
        /\ calls[c].pc = "sleep"
        /\ calls[c].attempt = 2
        /\ calls[c].lastError = JsonParseError

\* C13: every public operation that has been called returns in the end,
\* whatever the server does or fails to do.
C13_EveryCallReturns ==
    (\E c \in Slots : InProgress(c)) ~> (\A c \in Slots : ~InProgress(c))

\* a call of a breaker-wrapped operation is turned away by the breaker
TurnedAway == Settles /\ returned'.attempts = 0

\* C14: a call made while the breaker is OPEN is turned away exactly when
\* less than the recovery timeout has passed since the last failure; from the
\* recovery timeout on, equality included, it is let through and the breaker
\* goes to HALF_OPEN.
C14_RejectedExactlyBeforeTimeout ==
    [][ state = "OPEN" =>
            /\ TurnedAway => sinceFailure < RecoveryTimeout
            /\ (\E c \in Slots : Issued(c) /\ calls'[c].op \in BreakerOps) =>
                    (sinceFailure >= RecoveryTimeout /\ state' = "HALF_OPEN") ]_vars

\* C15: at most one handshake is in flight, and the requests that wait for
\* their response at the same moment carry the same session header.
C15_OneSessionAtATime ==
    /\ Cardinality({ c \in Slots : calls[c].pc \in {"initHdr", "initBody"} }) <= 1
    /\ \A c, d \in Slots :
            (AwaitsFetch(c) /\ AwaitsFetch(d)) => calls[c].sid = calls[d].sid

\* the requests of calls c and d carry the same id: both took the present
\* reading of the clock
SameId(c, d) == c \in sentNow /\ d \in sentNow

\* C16: no two requests in flight at the same time carry the same id.
C16_UniqueRequestIds ==
    \A c, d \in Slots : (c # d /\ InFlight(c) /\ InFlight(d)) => ~SameId(c, d)

\* C17: an OPEN breaker has counted at least FailureThreshold failures.
C17_OpenImpliesThreshold == state = "OPEN" => failures >= FailureThreshold

C17_Witness ==
    /\ state = "OPEN"
    /\ failures > FailureThreshold
    /\ \E c \in Slots : InProgress(c) /\ calls[c].adm = "CLOSED"

\* a call that the breaker let through ends in failure, ends in success
CallFailed == Settles /\ returned'.attempts >= 1 /\ returned'.err # NoError
CallSucceeded == Settles /\ returned'.err = NoError

\* C18: the step in which the probe (the call let through by an OPEN
\* breaker) fails leaves the breaker OPEN, with the time of the last failure
\* set to that instant.
C18_ProbeFailureReopens ==
    [][ (CallFailed /\ returned'.adm = "OPEN") =>
            (state' = "OPEN" /\ sinceFailure' = 0) ]_vars

\* C19: the breaker goes from CLOSED to OPEN only in the step in which a call
\* fails and the counter goes from FailureThreshold - 1 to FailureThreshold,
\* that many calls having failed since the last success; a success sets the
\* counter to 0; a failure in CLOSED raises it by exactly one and opens the
\* breaker exactly when the counter reaches FailureThreshold.
C19_ClosedToOpenAtThreshold ==
    [][ /\ (state = "CLOSED" /\ state' = "OPEN") =>
              /\ CallFailed
              /\ failures = FailureThreshold - 1
              /\ failures' = FailureThreshold
              /\ streak' = FailureThreshold
        /\ CallSucceeded => failures' = 0
        /\ (state = "CLOSED" /\ CallFailed) =>
              /\ failures' = failures + 1
              /\ state' = (IF failures' = FailureThreshold THEN "OPEN" ELSE "CLOSED") ]_vars

C19_Witness ==
    /\ state = "OPEN"
    /\ failures = FailureThreshold
    /\ returned.err # NoError
    /\ returned.adm = "CLOSED"
    /\ \E c \in Slots : InProgress(c)

\* C20: a client that holds no session token is not initialized.
C20_NoTokenNotInitialized == sessionId = NoToken => ~initialized

\* C21: an initialize request goes out only from inside a call that the
\* breaker has let through and that the retry loop is running, and it carries
\* no session header.
C21_HandshakeLikeAnyCall ==
    [][ \A c \in Slots :
            (Sent(c) /\ (calls'[c].pc = "initHdr" \/ MethodOf(calls'[c].op) = "initialize")) =>
                /\ calls'[c].op \in BreakerOps
                /\ calls'[c].adm # "none"
                /\ calls'[c].attempt >= 1
                /\ calls'[c].sid = Absent ]_vars

\* the breaker is consulted, or told the outcome of a call
BreakerUsed ==
    \/ \E c \in Slots : Issued(c) /\ calls'[c].op \in BreakerOps
    \/ Settles

\* C22: the step that clears the session token or the initialized flag and
\* is no step of a call (disconnect) leaves the breaker's state, failure
\* counter and time of last failure as they were; the state and the counter
\* change only in steps in which the breaker is consulted or told an
\* outcome, and the time since the last failure only goes back to zero in
\* such a step, and otherwise grows.
C22_BreakerOutlivesDisconnect ==
    [][ /\ (/\ calls' = calls
             /\ returned' = returned
             /\ sessionId' = NoToken
             /\ ~initialized'
             /\ (sessionId # NoToken \/ initialized)) =>
                (state' = state /\ failures' = failures /\ sinceFailure' = sinceFailure)
        /\ (state' # state \/ failures' # failures) => BreakerUsed
        /\ sinceFailure' < sinceFailure => (Settles /\ sinceFailure' = 0) ]_vars

C22_Witness ==
    /\ state = "HALF_OPEN"
    /\ failures >= FailureThreshold
    /\ sessionId = NoToken
    /\ ~initialized
    /\ \E c \in Slots : calls[c].pc = "reqBody" /\ calls[c].op \in BreakerOps

\* C23: the breaker changes state only from CLOSED to OPEN, from OPEN to
\* HALF_OPEN, from HALF_OPEN to CLOSED and from HALF_OPEN to OPEN.
C23_AllowedTransitions ==
    [][ state' # state =>
            <<state, state'>> \in { <<"CLOSED", "OPEN">>, <<"OPEN", "HALF_OPEN">>,
                                    <<"HALF_OPEN", "CLOSED">>, <<"HALF_OPEN", "OPEN">> } ]_vars

\* a request of some call fails: its attempt throws, so that the call goes to
\* the sleep before its next attempt or ends with an error
RequestFailed ==
    \E c \in Slots :
        /\ InFlight(c)
        /\ \/ calls'[c].pc = "sleep"
           \/ returned' # Nothing /\ returned'.err # NoError

\* a public operation that goes through the breaker is called
IssueCall ==
    \E c \in Slots, op \in BreakerOps : \E arg \in ArgsOf(op) :
        Reject(c, op, arg) \/ Admit(c, op, arg)

\* the server sends the headers, or the body, of a response that is awaited
ServerResponds ==
    \/ \E c \in Slots, status \in Statuses, header \in SessionHeaders(Tokens) :
          Headers(c, status, header)
    \/ \E c \in Slots, body \in Bodies : InitBody(c, body)
    \/ \E c \in Slots, body \in Bodies : ReqBody(c, body)

\* from some moment on no request fails and the failure counter is below the
\* bound of the model; the server goes on answering, public calls go on
\* being issued, time goes on
ServerHealthy ==
    /\ <>[][~RequestFailed]_vars
    /\ <>[](failures < MaxFailures)
    /\ WF_vars(ServerResponds)
    /\ SF_vars(IssueCall)
    /\ SF_vars(Elapse)

\* a call has been answered from the server
Answered ==
    /\ returned # Nothing
    /\ returned.op \in BreakerOps
    /\ returned.attempts >= 1
    /\ returned.err = NoError

\* C24: if from some moment on every request succeeds, and public calls keep
\* being issued while time advances, then the breaker, OPEN or not, is in
\* the end CLOSED for good, every OPEN breaker is followed by a CLOSED one,
\* and calls are answered from the server again and again.
C24_RecoveryIsLive ==
    ServerHealthy =>
        /\ <>[](state = "CLOSED")
        /\ [](state = "OPEN" => <>(state = "CLOSED"))
        /\ []<>Answered

\* an OPEN breaker has been closed by the success of its probe
C24_Witness ==
    /\ Answered
    /\ returned.adm = "OPEN"
    /\ state = "CLOSED"

\* C25: the step in which a call ends with HTTP 400, 401 or 403 adds one to
\* the failure counter and sets the time of the last failure, as the end of
\* any failed call does; when it is the FailureThreshold-th failed call in a
\* row, or brings the counter to the threshold, it leaves the breaker OPEN.
C25_ClientErrorCounted ==
    [][ (CallFailed /\ returned'.err \in ClientErrors) =>
            /\ failures' = failures + 1
            /\ sinceFailure' = 0
            /\ streak' = streak + 1
            /\ (streak' >= FailureThreshold \/ failures' >= FailureThreshold) => state' = "OPEN" ]_vars

C25_Witness ==
    /\ returned.op \in BreakerOps
    /\ returned.err = HttpError(401)
    /\ returned.attempts = 1
    /\ returned.adm = "CLOSED"
    /\ streak = FailureThreshold
    /\ state = "OPEN"

\* call c goes on: it was in progress and still is
GoesOn(c) == InProgress(c) /\ calls'[c].pc # "idle" /\ calls'[c] # calls[c]

\* C26: the breaker is asked once in a call, before the first attempt: the
\* breaker-open error ends only calls that have made no attempt, a call
\* that goes on keeps the admission it got and leaves the state and the
\* failure counter of the breaker alone, a call that sleeps before its next
\* attempt goes on to that attempt whatever the breaker has become, and the
\* step in which a call fails for good adds one to the counter and sets the
\* time of the last failure.
C26_BreakerAskedOnce ==
    [][ /\ (Settles /\ returned'.err = BreakerOpenError) => returned'.attempts = 0
        /\ \A c \in Slots :
              GoesOn(c) =>
                /\ calls'[c].adm = calls[c].adm
                /\ state' = state
                /\ failures' = failures
                /\ calls[c].pc = "sleep" =>
                        /\ calls'[c].pc \in {"sleep", "initHdr", "reqHdr"}
                        /\ calls'[c].attempt = calls[c].attempt
        /\ \A c \in Slots :
              (calls[c].pc = "sleep" /\ calls'[c] # calls[c]) => GoesOn(c)
        /\ CallFailed => (failures' = failures + 1 /\ sinceFailure' = 0) ]_vars

\* a call let through by the CLOSED breaker has made its last attempt and
\* failed after other calls had opened the breaker
C26_Witness ==
    /\ returned.adm = "CLOSED"
    /\ returned.attempts = RetryAttempts
    /\ returned.err = NetworkError
    /\ failures > FailureThreshold
    /\ sinceFailure = 0
    /\ state = "OPEN"

\* C27: the step in which a call is turned away by the breaker changes
\* nothing but what the caller gets: the breaker's state, failure counter and
\* time of last failure, the session token and the initialized flag stay as
\* they were, no call takes a step and no request is sent.
C27_RejectionChangesNothing ==
    [][ TurnedAway =>
            /\ returned'.err = BreakerOpenError
            /\ state' = state
            /\ failures' = failures
            /\ sinceFailure' = sinceFailure
            /\ sessionId' = sessionId
            /\ initialized' = initialized
            /\ calls' = calls
            /\ sentNow' = sentNow ]_vars

C27_Witness ==
    /\ returned.err = BreakerOpenError
    /\ returned.attempts = 0
    /\ state = "OPEN"
    /\ sinceFailure = RecoveryTimeout
    /\ initialized
    /\ sessionId # NoToken

\* C28: a CLOSED breaker has counted fewer failures than the threshold, and
\* a HALF_OPEN breaker at least the threshold, also when calls overlap.
C28_CounterMatchesState ==
    /\ state = "CLOSED" => failures < FailureThreshold
    /\ state = "HALF_OPEN" => failures >= FailureThreshold

\* the probe is in flight beside a call that the CLOSED breaker let through
C28_Witness ==
    /\ state = "HALF_OPEN"
    /\ failures >= FailureThreshold
    /\ \E c, d \in Slots :
          /\ InFlight(c) /\ calls[c].adm = "OPEN"
          /\ InFlight(d) /\ calls[d].adm = "CLOSED"

\* C29: updateFact and deleteFact hand true to the caller only when the
\* result the server sent does not say that the tool failed (isError: the
\* fact was not found, or the database operation failed).
C29_TrueOnlyIfDone ==
    (returned.op \in {"updateFact", "deleteFact"} /\ returned.res = Value("true")) =>
        (returned.result # Absent /\ ~returned.result[1].isError)

\* a step of a healthCheck call: it is called, goes on, or returns
HealthCheckStep ==
    \E c \in Slots :
        /\ calls'[c] # calls[c]
        /\ "healthCheck" \in {calls[c].op, calls'[c].op}

\* C30: no step of a healthCheck call changes the initialized flag or the
\* breaker's state, failure counter or time of last failure, whatever the
\* breaker's state and whatever comes of the request; what healthCheck hands
\* to the caller is true or false, never an exception.
C30_HealthCheckIsPassive ==
    [][ /\ HealthCheckStep =>
              /\ initialized' = initialized
              /\ state' = state
              /\ failures' = failures
              /\ sinceFailure' = sinceFailure
        /\ (returned' # returned /\ returned'.op = "healthCheck") =>
              /\ returned'.res \in {Value("true"), Value("false")}
              /\ returned'.res = Value("true") <=> returned'.err = NoError ]_vars

\* healthCheck has returned true on a client that is not initialized and
\* whose breaker is OPEN
C30_Witness ==
    /\ returned.op = "healthCheck"
    /\ returned.res = Value("true")
    /\ ~initialized
    /\ state = "OPEN"
    /\ failures >= FailureThreshold

====
